---- MODULE Spec2Model ----
(***************************************************************************)
(* Model of the playback/queue controller of the music cog                 *)
(* (src/cogs/music.py).  One wavelink.Player object per voice session      *)
(* holds the queue, the current track and the pause flag; every command    *)
(* is a coroutine that runs atomically between two awaits; the audio node  *)
(* answers play/stop requests and reports ended tracks through events that *)
(* the on_wavelink_track_end listener consumes.                            *)
(*                                                                         *)
(* Environment (library and audio node) as the cog uses it:                *)
(*  - a request to the node takes effect when it is issued; what the node  *)
(*    reports back (track ended) is delivered later, in order;             *)
(*  - the node ends a track when it finishes, when it is stopped, and      *)
(*    when another track replaces it; one event per ended track;           *)
(*  - the library clears player.current when it receives a track end that  *)
(*    is not a replacement, before the listener runs;                      *)
(*  - player.play(t) sets player.current and leaves the pause flag alone;  *)
(*  - player.stop()/skip() leave player.current to the track-end event;    *)
(*  - channel.connect() registers the new player for the guild before its  *)
(*    first await and refuses when one is registered;                      *)
(*  - a join that fails leaves no player registered for the guild;         *)
(*  - player.disconnect() unregisters the player and drops its node        *)
(*    session together with the events still in flight;                    *)
(*  - every track lasts TrackLen seconds; player.position is where the     *)
(*    node is in its track, 0 when it plays none; player.seek(ms) moves    *)
(*    the node there, to the nearer end of the track when ms lies outside. *)
(***************************************************************************)
EXTENDS Integers, Sequences, FiniteSets, Bags, TLC

\* Bounds of the model.
MaxTracks == 3
MaxTasks == 2
MaxPlayers == 2
TrackLen == 1
MaxRows == 25
MaxDuration == 21

\* config.MAX_QUEUE_SIZE, scaled down to the tracks of the model.
MAX_QUEUE_SIZE == 1

\* Milliseconds in a second: positions and lengths are in milliseconds, what
\* a user types is in seconds.
Millis == 1000

\* items_per_page of the queue command.
items_per_page == 10

\* bar_length of _create_progress_bar.
BarLength == 20

Guilds == {1, 2}
Chans == {1, 2}
PlayerIds == 1..MaxPlayers
PlaybackCmds == {"play", "skip", "stop", "pause", "resume"}
SessionCmds == {"play", "leave"}
QueueCmds == {"play", "playtop", "skip"}
\* Levels a user may type after "volume": below, at and above the ends of the
\* range, and one inside it.
VolumeArgs == {-1, 0, 80, 100, 101, 150}
\* What a user may type after "loop"; the last is no mode.
LoopArgs == <<"track", "queue", "off", "shuffle">>

VARIABLES
    players,    \* the wavelink.Player objects ever created, with their node session
    tasks,      \* the command coroutines in flight (a bag: they have no identity)
    hpend,      \* track-end listeners suspended before their home.send
    sink,       \* the channel of the last "Now Playing" a listener sent, 0 for none
    nextTrack,  \* the next track object the resolver hands out
    out,        \* the reply the last step sent, NoOut if it sent none
    mark,       \* history: the last skip/stop per player, not yet superseded
    disc        \* history: "left" once the guild's session was disconnected,
                \* "fresh" once a session was created after that

vars == <<players, tasks, hpend, sink, nextTrack, out, mark, disc>>

\* A player object; its volume is the library's default until it is set.
NewPlayer ==
    [st |-> "unused", guild |-> 0, home |-> 0, current |-> 0, paused |-> FALSE,
     volume |-> 100, queue |-> <<>>, mode |-> "normal", loaded |-> 0,
     ntrack |-> 0, npos |-> 0, events |-> <<>>]

\* A coroutine: where it is suspended (pc), its command and argument,
\* ctx.channel while the join is awaited, its player, and the reply it is
\* about to send: with the position, the track, the length, the progress bar
\* and the rows of the queue the reply shows, and the position the command
\* asked the node to seek (a sequence, empty when it asked for none).
NewTask(cmd, ch) ==
    [pc |-> "run", cmd |-> cmd, arg |-> 0, chan |-> ch, p |-> 0,
     note |-> "", pos |-> 0, track |-> 0, len |-> 0, bar |-> <<>>, rows |-> <<>>,
     seek |-> <<>>]

NoOut ==
    [cmd |-> "", arg |-> 0, note |-> "", pos |-> 0, track |-> 0,
     len |-> 0, bar |-> <<>>, rows |-> <<>>, seek |-> <<>>]

NoMark == [op |-> "none", head |-> 0, n |-> 0, deq |-> 0]

Init ==
    /\ players = [p \in PlayerIds |-> NewPlayer]
    /\ tasks = EmptyBag
    /\ hpend = {}
    /\ sink = 0
    /\ nextTrack = 1
    /\ out = NoOut
    /\ mark = [p \in PlayerIds |-> NoMark]
    /\ disc = [g \in Guilds |-> "no"]

----
\* The library's player, as the cog calls it.

Registered(P) == P.st \in {"connecting", "live"}

IsPlaying(P) == Registered(P) /\ P.current # 0

IsPaused(P) == P.paused

\* The node starts t; a track it was playing ends as replaced.
NodePlay(P, t) ==
    [P EXCEPT !.ntrack = t, !.npos = 0,
              !.events = IF P.ntrack # 0
                         THEN Append(@, [track |-> P.ntrack, reason |-> "REPLACED"])
                         ELSE @]

\* Variant: current is left to the node's answer.
PlayerPlayLate(P, t) == [NodePlay(P, t) EXCEPT !.loaded = t]

\* player.play(t): t is the current track and the one the queue has loaded.
PlayerPlay(P, t) == [NodePlay(P, t) EXCEPT !.current = t, !.loaded = t]

\* Variant: queue.get() takes the track put last.
QueueGetLast(P) ==
    IF P.mode = "loop" /\ P.loaded # 0
    THEN [track |-> P.loaded, queue |-> P.queue]
    ELSE [track |-> P.queue[Len(P.queue)], queue |-> SubSeq(P.queue, 1, Len(P.queue) - 1)]

\* player.queue.get() on a queue that is not empty: under QueueMode.loop the
\* loaded track again, the queue untouched; otherwise the head is taken.
QueueGet(P) ==
    IF P.mode = "loop" /\ P.loaded # 0
    THEN [track |-> P.loaded, queue |-> P.queue]
    ELSE [track |-> Head(P.queue), queue |-> Tail(P.queue)]

\* The node stops what it plays, if anything, and reports it.
PlayerStop(P) ==
    IF P.ntrack # 0
    THEN [P EXCEPT !.ntrack = 0, !.npos = 0,
                   !.events = Append(@, [track |-> P.ntrack, reason |-> "STOPPED"])]
    ELSE P

PlayerPause(P, b) == [P EXCEPT !.paused = b]

\* player.set_volume(v).
PlayerSetVolume(P, v) == [P EXCEPT !.volume = v]

\* track.length, in milliseconds.
Length(t) == TrackLen * Millis

\* player.position, in milliseconds.
Position(P) == P.npos * Millis

\* player.seek(ms): the node moves to ms of the track it plays.
PlayerSeek(P, ms) ==
    IF P.ntrack = 0 THEN P
    ELSE [P EXCEPT !.npos = IF ms < 0 THEN 0
                            ELSE IF ms > Length(P.ntrack) THEN TrackLen
                            ELSE ms \div Millis]

\* Variant: the player stays registered for the guild.
PlayerDisconnectKeep(P) ==
    [P EXCEPT !.ntrack = 0, !.npos = 0, !.events = <<>>]

PlayerDisconnect(P) ==
    [P EXCEPT !.st = "closed", !.ntrack = 0, !.npos = 0, !.events = <<>>]

\* Variant: ctx.voice_client knows a player only once its join is over.
VoiceClientLive(g) ==
    IF \E p \in PlayerIds : players[p].st = "live" /\ players[p].guild = g
    THEN CHOOSE p \in PlayerIds : players[p].st = "live" /\ players[p].guild = g
    ELSE 0

\* Variant: one player serves every guild.
VoiceClientAnyGuild(g) ==
    IF \E p \in PlayerIds : Registered(players[p])
    THEN CHOOSE p \in PlayerIds : Registered(players[p])
    ELSE 0

\* ctx.voice_client: the player registered for the guild, 0 for None.
VoiceClient(g) ==
    IF \E p \in PlayerIds : Registered(players[p]) /\ players[p].guild = g
    THEN CHOOSE p \in PlayerIds : Registered(players[p]) /\ players[p].guild = g
    ELSE 0

Max(a, b) == IF a >= b THEN a ELSE b
Min(a, b) == IF a <= b THEN a ELSE b

----
\* The command bodies: what each command does with the player that
\* ensure_voice returned, up to its first await.  Each yields the player and
\* the coroutine as they are when it suspends.

Reply(T, note) ==
    [T EXCEPT !.pc = "reply", !.note = note, !.chan = 0, !.pos = 0, !.track = 0,
              !.len = 0, !.bar = <<>>, !.rows = <<>>, !.seek = <<>>]

\* play: ctx.typing() and the search are awaited before anything is touched.
PlayBody(P, T) == [P |-> P, T |-> [T EXCEPT !.pc = "p_search", !.chan = 0]]

\* Variant: skip starts the head of the queue itself.
SkipBodyAdvance(P, T) ==
    IF ~IsPlaying(P)
    THEN [P |-> P, T |-> Reply(T, "nothing")]
    ELSE [P |-> IF P.queue = <<>>
                THEN PlayerStop(P)
                ELSE PlayerPlay([PlayerStop(P) EXCEPT !.queue = Tail(@)], Head(P.queue)),
          T |-> Reply(T, "skipped")]

\* Variant: skip does not look whether anything plays.
SkipBodyBlind(P, T) == [P |-> PlayerStop(P), T |-> Reply(T, "skipped")]

SkipBody(P, T) ==
    IF ~IsPlaying(P)
    THEN [P |-> P, T |-> Reply(T, "nothing")]
    ELSE [P |-> PlayerStop(P), T |-> Reply(T, "skipped")]

\* stop: the queue is cleared only after player.stop() was awaited.
StopBody(P, T) == [P |-> PlayerStop(P), T |-> [T EXCEPT !.pc = "s_clear", !.chan = 0]]

\* Variant: pause on a paused player lets it play again.
PauseBodyToggle(P, T) ==
    IF IsPaused(P)
    THEN [P |-> PlayerPause(P, FALSE), T |-> Reply(T, "already")]
    ELSE [P |-> PlayerPause(P, TRUE),
          T |-> Reply(T, IF P.current = 0 THEN "error" ELSE "paused")]

PauseBody(P, T) ==
    IF IsPaused(P)
    THEN [P |-> P, T |-> Reply(T, "already")]
    ELSE [P |-> PlayerPause(P, TRUE),
          T |-> Reply(T, IF P.current = 0 THEN "error" ELSE "paused")]

ResumeBody(P, T) ==
    IF ~IsPaused(P)
    THEN [P |-> P, T |-> Reply(T, "notpaused")]
    ELSE [P |-> PlayerPause(P, FALSE),
          T |-> Reply(T, IF P.current = 0 THEN "error" ELSE "resumed")]

LeaveBody(P, T) == [P |-> PlayerDisconnect(P), T |-> Reply(T, "left")]

\* playtop: as play, the search is awaited first.
PlayTopBody(P, T) == [P |-> P, T |-> [T EXCEPT !.pc = "pt_search", !.chan = 0]]

\* Variant: the position is taken as an index from 0.
RemoveAtFromZero(q, i) == SubSeq(q, 1, i) \o SubSeq(q, i + 2, Len(q))

\* The queue without its i-th track.
RemoveAt(q, i) == SubSeq(q, 1, i - 1) \o SubSeq(q, i + 1, Len(q))

\* Variant: position 0 passes the check and indexes the queue from its end.
RemoveBodyFromZero(P, T) ==
    IF Len(P.queue) = 0
    THEN [P |-> P, T |-> Reply(T, "empty")]
    ELSE IF T.arg < 0 \/ T.arg > Len(P.queue)
    THEN [P |-> P, T |-> Reply(T, "invalid")]
    ELSE LET i == IF T.arg = 0 THEN Len(P.queue) ELSE T.arg IN
         [P |-> [P EXCEPT !.queue = SubSeq(@, 1, i - 1) \o SubSeq(@, i + 1, Len(@))],
          T |-> [Reply(T, "removed") EXCEPT !.track = P.queue[i]]]

\* remove <position>: T.arg is the position typed.
RemoveBody(P, T) ==
    IF Len(P.queue) = 0
    THEN [P |-> P, T |-> Reply(T, "empty")]
    ELSE IF T.arg < 1 \/ T.arg > Len(P.queue)
    THEN [P |-> P, T |-> Reply(T, "invalid")]
    ELSE [P |-> [P EXCEPT !.queue = RemoveAt(@, T.arg)],
          T |-> [Reply(T, "removed") EXCEPT !.track = P.queue[T.arg]]]

\* The r-th of the orders q can be put in: the digits of r pick, one after
\* the other, which of the tracks left comes next.
RECURSIVE Permute(_, _)
Permute(q, r) ==
    IF q = <<>> THEN <<>>
    ELSE LET i == (r % Len(q)) + 1
         IN <<q[i]>> \o Permute(RemoveAt(q, i), r \div Len(q))

\* The number of orders of n tracks.
RECURSIVE Factorial(_)
Factorial(n) == IF n <= 1 THEN 1 ELSE n * Factorial(n - 1)

\* Variant: the current track is shuffled in with the queue and the first of
\* the outcome is what plays.
ShuffleBodyWithCurrent(P, T) ==
    IF Len(P.queue) = 0
    THEN [P |-> P, T |-> Reply(T, "empty")]
    ELSE LET all == Permute(IF P.current # 0 THEN <<P.current>> \o P.queue ELSE P.queue, T.arg)
         IN [P |-> IF P.current # 0
                   THEN [P EXCEPT !.current = Head(all), !.queue = Tail(all)]
                   ELSE [P EXCEPT !.queue = all],
             T |-> [Reply(T, "shuffled") EXCEPT !.pos = Len(P.queue)]]

\* shuffle: random.shuffle leaves the queue in any of its orders; T.arg is
\* what the random generator draws.  The reply shows the number of tracks.
ShuffleBody(P, T) ==
    IF Len(P.queue) = 0
    THEN [P |-> P, T |-> Reply(T, "empty")]
    ELSE [P |-> [P EXCEPT !.queue = Permute(@, T.arg)],
          T |-> [Reply(T, "shuffled") EXCEPT !.pos = Len(P.queue)]]

\* clear.
ClearBody(P, T) ==
    IF Len(P.queue) = 0
    THEN [P |-> P, T |-> Reply(T, "alreadyempty")]
    ELSE [P |-> [P EXCEPT !.queue = <<>>], T |-> Reply(T, "cleared")]

\* list(q)[start:end]: the items of q from index start (counted from 0) up
\* to, not including, index end or the end of q.
Slice(q, start, end) == SubSeq(q, start + 1, Min(end, Len(q)))

\* enumerate(q, start=n): the items of q numbered from n.
Enumerate(q, n) == [k \in 1..Len(q) |-> <<n + k - 1, q[k]>>]

\* queue <page>: T.arg is the page typed.  The reply shows the rows of the
\* page, each with its number, the number of pages and of queued tracks.
QueueBody(P, T) ==
    IF Len(P.queue) = 0
    THEN [P |-> P, T |-> Reply(T, "queueempty")]
    ELSE LET pages == (Len(P.queue) + items_per_page - 1) \div items_per_page
             start == (T.arg - 1) * items_per_page
             end == start + items_per_page
         IN IF T.arg > pages \/ T.arg < 1
            THEN [P |-> P, T |-> [Reply(T, "badpage") EXCEPT !.pos = pages]]
            ELSE [P |-> P,
                  T |-> [Reply(T, "listing") EXCEPT
                            !.rows = Enumerate(Slice(P.queue, start, end), start + 1),
                            !.pos = pages, !.len = Len(P.queue)]]

\* loop <mode>: T.arg is the index of the word typed in LoopArgs.
LoopBody(P, T) ==
    LET mode == LoopArgs[T.arg] IN
    IF mode \notin {"track", "queue", "off"}
    THEN [P |-> P, T |-> Reply(T, "badmode")]
    ELSE [P |-> [P EXCEPT !.mode = CASE mode = "track" -> "loop"
                                      [] mode = "queue" -> "loop_all"
                                      [] OTHER -> "normal"],
          T |-> Reply(T, "loopset")]

\* Variant: the seconds typed are compared with the length in milliseconds.
SeekBodySeconds(P, T) ==
    IF ~IsPlaying(P)
    THEN [P |-> P, T |-> Reply(T, "nothing")]
    ELSE IF T.arg < 0 \/ T.arg > Length(P.current)
    THEN [P |-> P, T |-> Reply(T, "invalid")]
    ELSE [P |-> PlayerSeek(P, T.arg * Millis),
          T |-> [Reply(T, "seeked") EXCEPT !.pos = T.arg, !.seek = <<T.arg * Millis>>]]

\* seek <seconds>: T.arg is the number typed; the reply shows it.
SeekBody(P, T) ==
    IF ~IsPlaying(P)
    THEN [P |-> P, T |-> Reply(T, "nothing")]
    ELSE IF T.arg < 0 \/ T.arg * Millis > Length(P.current)
    THEN [P |-> P, T |-> Reply(T, "invalid")]
    ELSE [P |-> PlayerSeek(P, T.arg * Millis),
          T |-> [Reply(T, "seeked") EXCEPT !.pos = T.arg, !.seek = <<T.arg * Millis>>]]

\* rewind <seconds>: new_position = max(0, position - seconds * 1000).
RewindBody(P, T) ==
    IF ~IsPlaying(P)
    THEN [P |-> P, T |-> Reply(T, "nothing")]
    ELSE LET new_position == Max(0, Position(P) - T.arg * Millis) IN
         [P |-> PlayerSeek(P, new_position),
          T |-> [Reply(T, "rewound") EXCEPT !.seek = <<new_position>>]]

\* forward <seconds>: new_position = min(length, position + seconds * 1000).
ForwardBody(P, T) ==
    IF ~IsPlaying(P)
    THEN [P |-> P, T |-> Reply(T, "nothing")]
    ELSE LET new_position == Min(Length(P.current), Position(P) + T.arg * Millis) IN
         [P |-> PlayerSeek(P, new_position),
          T |-> [Reply(T, "forwarded") EXCEPT !.seek = <<new_position>>]]

\* int(x) of a quotient n / d with d > 0: the fraction is cut off.  The
\* quotient of the code is a double; for lengths a track can have its
\* rounding never reaches the next integer.
Trunc(n, d) == IF n >= 0 THEN n \div d ELSE -((-n) \div d)

\* c * n: n times the cell c, nothing for n below 1.
Cells(c, n) == IF n < 1 THEN <<>> ELSE [i \in 1..n |-> c]

\* Variant: the filled part is rounded to the nearest cell.
CreateProgressBarRounded(current, total, bar_length) ==
    LET filled == IF total = 0 THEN 0
                  ELSE Trunc(2 * bar_length * current + total, 2 * total)
    IN Cells("#", filled) \o Cells("-", bar_length - filled)

\* _create_progress_bar: the cells of the bar ("#" filled, "-" not).
CreateProgressBar(current, total, bar_length) ==
    LET filled == IF total = 0 THEN 0 ELSE Trunc(bar_length * current, total)
    IN Cells("#", filled) \o Cells("-", bar_length - filled)

\* The reply of now: position and duration as shown, and the bar.
NowReply(T, position, duration) ==
    [Reply(T, "now") EXCEPT !.pos = position, !.len = duration,
                            !.bar = CreateProgressBar(position, duration, BarLength)]

\* now: the status of the current track.
NowBody(P, T) ==
    IF ~IsPlaying(P)
    THEN [P |-> P, T |-> Reply(T, "nothing")]
    ELSE [P |-> P, T |-> NowReply(T, Position(P), Length(P.current))]

\* Variant: only the upper end of the range is checked.
VolumeBodyNoFloor(P, T) ==
    IF T.arg > 100
    THEN [P |-> P, T |-> Reply(T, "badvolume")]
    ELSE [P |-> PlayerSetVolume(P, T.arg), T |-> Reply(T, "volume")]

\* volume <level>: T.arg is the level typed.
VolumeBody(P, T) ==
    IF T.arg < 0 \/ T.arg > 100
    THEN [P |-> P, T |-> Reply(T, "badvolume")]
    ELSE [P |-> PlayerSetVolume(P, T.arg), T |-> Reply(T, "volume")]

Body(cmd, P, T) ==
    CASE cmd = "play" -> PlayBody(P, T)
      [] cmd = "skip" -> SkipBody(P, T)
      [] cmd = "stop" -> StopBody(P, T)
      [] cmd = "pause" -> PauseBody(P, T)
      [] cmd = "resume" -> ResumeBody(P, T)
      [] cmd = "leave" -> LeaveBody(P, T)
      [] cmd = "playtop" -> PlayTopBody(P, T)
      [] cmd = "remove" -> RemoveBody(P, T)
      [] cmd = "loop" -> LoopBody(P, T)
      [] cmd = "seek" -> SeekBody(P, T)
      [] cmd = "rewind" -> RewindBody(P, T)
      [] cmd = "forward" -> ForwardBody(P, T)
      [] cmd = "now" -> NowBody(P, T)
      [] cmd = "volume" -> VolumeBody(P, T)
      [] cmd = "shuffle" -> ShuffleBody(P, T)
      [] cmd = "clear" -> ClearBody(P, T)
      [] cmd = "queue" -> QueueBody(P, T)

\* Variant: the candidate is put at the front of the queue.
PlayEnqueueFront(P, t) ==
    LET P1 == [P EXCEPT !.queue = <<t>> \o @] IN
    IF ~IsPlaying(P)
    THEN PlayerPlay([P1 EXCEPT !.queue = QueueGet(P1).queue], QueueGet(P1).track)
    ELSE P1

\* play, after the search: the first candidate t is put on the queue; a
\* player that is not playing is started on what queue.get() returns.
PlayEnqueue(P, t) ==
    LET P1 == [P EXCEPT !.queue = Append(@, t)] IN
    IF ~IsPlaying(P)
    THEN PlayerPlay([P1 EXCEPT !.queue = QueueGet(P1).queue], QueueGet(P1).track)
    ELSE P1

\* The reply of play on player P, which the insertion left as Pn: "Now
\* Playing", or "Added to Queue" with len(player.queue) as the position.
PlayReply(P, Pn, T) ==
    IF ~IsPlaying(P)
    THEN Reply(T, "nowplaying")
    ELSE [Reply(T, "queued") EXCEPT !.pos = Len(Pn.queue)]

\* playtop, after the search: the candidate t is put at the front of the
\* queue; a player that is not playing is started on what queue.get() returns.
PlayTopEnqueue(P, t) ==
    LET P1 == [P EXCEPT !.queue = <<t>> \o @] IN
    IF ~IsPlaying(P)
    THEN PlayerPlay([P1 EXCEPT !.queue = QueueGet(P1).queue], QueueGet(P1).track)
    ELSE P1

\* The reply of playtop: "Added to Top of Queue", position #1, whatever happened.
PlayTopReply(T) == [Reply(T, "top") EXCEPT !.pos = 1]

\* Variant: the listener starts nothing.
TrackEndStays(P) ==
    LET e == Head(P.events) IN
    [P EXCEPT !.events = Tail(@),
              !.current = IF e.reason # "REPLACED" THEN 0 ELSE @]

\* The track-end listener up to its await: the library has cleared current
\* unless the track was replaced; an empty queue returns, otherwise the head
\* is taken and played.
TrackEnd(P) ==
    LET e == Head(P.events)
        P0 == [P EXCEPT !.events = Tail(@),
                        !.current = IF e.reason # "REPLACED" THEN 0 ELSE @]
    IN IF P0.queue = <<>>
       THEN P0
       ELSE PlayerPlay([P0 EXCEPT !.queue = QueueGet(P0).queue], QueueGet(P0).track)

\* play, after the search, when player.play raises: the candidate was put on
\* the queue and queue.get() has taken a track off it; the node plays nothing
\* new and current is as it was.
PlayEnqueueFail(P, t) ==
    LET P1 == [P EXCEPT !.queue = Append(@, t)] IN
    [P1 EXCEPT !.queue = QueueGet(P1).queue]

\* The track-end listener when player.play raises: queue.get() has taken the
\* track off the queue.
TrackEndFail(P) ==
    LET e == Head(P.events)
        P0 == [P EXCEPT !.events = Tail(@),
                        !.current = IF e.reason # "REPLACED" THEN 0 ELSE @]
    IN [P0 EXCEPT !.queue = QueueGet(P0).queue]

----
\* History kept for the properties: the last skip or stop issued on a player
\* and not superseded by a later command (op, and for a skip the head of the
\* queue when it was issued), and the group of overlapping skip commands
\* (n of them so far, deq tracks dequeued by the listener since it began).

SkipInFlight(p) ==
    \E T \in BagToSet(tasks) : T.cmd = "skip" /\ T.p = p

MarkCmd(cmd, P, M, joined) ==
    CASE cmd = "skip" /\ IsPlaying(P) ->
            [op |-> "skip",
             head |-> IF P.queue = <<>> THEN 0 ELSE Head(P.queue),
             n |-> IF joined /\ M.n >= 1 THEN (IF M.n < 3 THEN M.n + 1 ELSE 3) ELSE 1,
             deq |-> IF joined /\ M.n >= 1 THEN M.deq ELSE 0]
      [] cmd = "stop" -> [NoMark EXCEPT !.op = "stop"]
      [] cmd = "pause" /\ ~IsPaused(P) -> NoMark
      [] cmd = "resume" /\ IsPaused(P) -> NoMark
      [] cmd = "leave" -> NoMark
      [] cmd = "remove" -> NoMark
      [] cmd = "loop" -> NoMark
      [] OTHER -> M

\* A coroutine that has only its reply left to send touches nothing any more:
\* the reply counts as sent (out) and the coroutine as ended.  A skip stays in
\* flight until TaskDone, so that overlapping skip commands can be told.
Keep(T) == IF T.pc # "reply" \/ T.cmd = "skip" THEN SetToBag({T}) ELSE EmptyBag

OutOf(T) ==
    IF T.pc = "reply"
    THEN [cmd |-> T.cmd, arg |-> T.arg, note |-> T.note, pos |-> T.pos, track |-> T.track,
          len |-> T.len, bar |-> T.bar, rows |-> T.rows, seek |-> T.seek]
    ELSE NoOut

Put(T) == tasks (+) Keep(T)

Swap(T, U) == (tasks (-) SetToBag({T})) (+) Keep(U)

\* A disconnected player (closed by leave, or failed in its join) that no
\* suspended coroutine and no suspended listener still refers to is garbage:
\* its slot is free for a new object.
Referenced(p, tk, hp) ==
    \/ \E T \in BagToSet(tk) : T.p = p /\ T.pc # "reply"
    \/ \E h \in hp : h.p = p

Collect(ps, tk, hp) ==
    [p \in PlayerIds |->
        IF ps[p].st \in {"closed", "failed"} /\ ~Referenced(p, tk, hp)
        THEN NewPlayer ELSE ps[p]]

CollectMark(mk, ps) ==
    [p \in PlayerIds |-> IF ps[p].st = "unused" THEN NoMark ELSE mk[p]]

\* The slot of the next player object.
FreeSlot == CHOOSE q \in PlayerIds :
                /\ players[q].st = "unused"
                /\ \A r \in PlayerIds : players[r].st = "unused" => q <= r

----
\* Actions.

\* A command arrives with its argument: ensure_voice, then the body up to its
\* first await.
StartWith(cmd, arg, g, ch, inVoice) ==
    /\ BagCardinality(tasks) < MaxTasks
    /\ UNCHANGED <<sink, nextTrack, hpend>>
    /\ LET T0 == [NewTask(cmd, ch) EXCEPT !.arg = arg]
           p == VoiceClient(g)
       IN IF ~inVoice
          THEN /\ out' = OutOf(Reply(T0, "novoice"))
               /\ UNCHANGED <<players, tasks, mark, disc>>
          ELSE IF p # 0
          THEN LET R == Body(cmd, players[p], [T0 EXCEPT !.p = p]) IN
               /\ tasks' = Put(R.T)
               /\ out' = OutOf(R.T)
               /\ players' = Collect([players EXCEPT ![p] = R.P], tasks', hpend)
               /\ mark' = CollectMark(
                            [mark EXCEPT ![p] = MarkCmd(cmd, players[p], @, SkipInFlight(p))],
                            players')
               /\ disc' = IF cmd = "leave" THEN [disc EXCEPT ![g] = "left"] ELSE disc
          ELSE IF \E q \in PlayerIds : Registered(players[q]) /\ players[q].guild = g
          THEN \* connect() refuses: already connected to a voice channel
               /\ out' = OutOf(Reply(T0, "connected"))
               /\ UNCHANGED <<players, tasks, mark, disc>>
          ELSE /\ \E q \in PlayerIds : players[q].st = "unused"
               /\ players' = [players EXCEPT
                                ![FreeSlot] = [NewPlayer EXCEPT !.st = "connecting", !.guild = g]]
               /\ tasks' = Put([T0 EXCEPT !.pc = "connecting", !.p = FreeSlot])
               /\ out' = NoOut
               /\ disc' = [disc EXCEPT ![g] = IF @ = "no" THEN "no" ELSE "fresh"]
               /\ UNCHANGED mark

\* A command that takes no argument, or whose argument is the query.
Start(cmd, g, ch, inVoice) == StartWith(cmd, 0, g, ch, inVoice)

\* The voice connection is established: home is set and the body runs.
ConnectDone(T) ==
    /\ T.pc = "connecting"
    /\ players[T.p].st = "connecting"
    /\ UNCHANGED <<hpend, sink, nextTrack>>
    /\ LET p == T.p
           P1 == [players[p] EXCEPT !.st = "live", !.home = T.chan]
           R == Body(T.cmd, P1, T)
       IN /\ tasks' = Swap(T, R.T)
          /\ out' = OutOf(R.T)
          /\ players' = Collect([players EXCEPT ![p] = R.P], tasks', hpend)
          /\ mark' = CollectMark([mark EXCEPT ![p] = MarkCmd(T.cmd, P1, @, FALSE)], players')
          /\ disc' = IF T.cmd = "leave"
                     THEN [disc EXCEPT ![players[p].guild] = "left"] ELSE disc

\* Variant: the player of a failed join stays registered for the guild.
ConnectFailKeep(T) ==
    /\ T.pc = "connecting"
    /\ UNCHANGED <<hpend, sink, nextTrack, disc>>
    /\ tasks' = Swap(T, Reply(T, "connfail"))
    /\ out' = OutOf(Reply(T, "connfail"))
    /\ players' = Collect(players, tasks', hpend)
    /\ mark' = CollectMark(mark, players')

\* The voice connection fails: the player is dropped, the command reports it.
ConnectFail(T) ==
    /\ T.pc = "connecting"
    /\ UNCHANGED <<hpend, sink, nextTrack, disc>>
    /\ tasks' = Swap(T, Reply(T, "connfail"))
    /\ out' = OutOf(Reply(T, "connfail"))
    /\ players' = Collect([players EXCEPT ![T.p] = [PlayerDisconnect(@) EXCEPT !.st = "failed"]],
                          tasks', hpend)
    /\ mark' = CollectMark([mark EXCEPT ![T.p] = NoMark], players')

\* Variant: a search without results ends what is playing.
PlaySearchStops(T, found) ==
    /\ T.pc = "p_search"
    /\ UNCHANGED <<hpend, sink, disc>>
    /\ IF ~found
       THEN /\ tasks' = Swap(T, Reply(T, "noresults"))
            /\ out' = OutOf(Reply(T, "noresults"))
            /\ players' = Collect([players EXCEPT ![T.p] = PlayerStop(@)], tasks', hpend)
            /\ mark' = CollectMark(mark, players')
            /\ UNCHANGED nextTrack
       ELSE /\ nextTrack <= MaxTracks
            /\ LET Pn == PlayEnqueue(players[T.p], nextTrack)
                   U == PlayReply(players[T.p], Pn, T)
               IN /\ tasks' = Swap(T, U)
                  /\ out' = OutOf(U)
                  /\ players' = Collect([players EXCEPT ![T.p] = Pn], tasks', hpend)
            /\ mark' = CollectMark([mark EXCEPT ![T.p] = NoMark], players')
            /\ nextTrack' = nextTrack + 1

\* play resumes after the search.
PlaySearch(T, found) ==
    /\ T.pc = "p_search"
    /\ UNCHANGED <<hpend, sink, disc>>
    /\ IF ~found
       THEN /\ tasks' = Swap(T, Reply(T, "noresults"))
            /\ out' = OutOf(Reply(T, "noresults"))
            /\ players' = Collect(players, tasks', hpend)
            /\ mark' = CollectMark(mark, players')
            /\ UNCHANGED nextTrack
       ELSE /\ nextTrack <= MaxTracks
            /\ LET Pn == PlayEnqueue(players[T.p], nextTrack)
                   U == PlayReply(players[T.p], Pn, T)
               IN /\ tasks' = Swap(T, U)
                  /\ out' = OutOf(U)
                  /\ players' = Collect([players EXCEPT ![T.p] = Pn], tasks', hpend)
            /\ mark' = CollectMark([mark EXCEPT ![T.p] = NoMark], players')
            /\ nextTrack' = nextTrack + 1

\* playtop resumes after the search.
PlayTopSearch(T, found) ==
    /\ T.pc = "pt_search"
    /\ UNCHANGED <<hpend, sink, disc>>
    /\ IF ~found
       THEN /\ tasks' = Swap(T, Reply(T, "noresults"))
            /\ out' = OutOf(Reply(T, "noresults"))
            /\ players' = Collect(players, tasks', hpend)
            /\ mark' = CollectMark(mark, players')
            /\ UNCHANGED nextTrack
       ELSE /\ nextTrack <= MaxTracks
            /\ tasks' = Swap(T, PlayTopReply(T))
            /\ out' = OutOf(PlayTopReply(T))
            /\ players' = Collect([players EXCEPT ![T.p] = PlayTopEnqueue(@, nextTrack)],
                                  tasks', hpend)
            /\ mark' = CollectMark([mark EXCEPT ![T.p] = NoMark], players')
            /\ nextTrack' = nextTrack + 1

\* stop resumes after player.stop(): queue.clear().
StopClear(T) ==
    /\ T.pc = "s_clear"
    /\ tasks' = Swap(T, Reply(T, "stopped"))
    /\ out' = OutOf(Reply(T, "stopped"))
    /\ players' = Collect([players EXCEPT ![T.p].queue = <<>>], tasks', hpend)
    /\ mark' = CollectMark([mark EXCEPT ![T.p] = IF @.op = "skip" THEN NoMark ELSE @],
                           players')
    /\ UNCHANGED <<hpend, sink, nextTrack, disc>>

\* The reply of a skip is sent; the coroutine ends.
TaskDone(T) ==
    /\ T.pc = "reply"
    /\ tasks' = tasks (-) SetToBag({T})
    /\ out' = NoOut
    /\ UNCHANGED <<players, hpend, sink, nextTrack, mark, disc>>

\* now draws the status of a track of the given duration at the given
\* position.
Status(position, duration) ==
    /\ out' = OutOf(NowReply(NewTask("now", 1), position, duration))
    /\ UNCHANGED <<players, tasks, hpend, sink, nextTrack, mark, disc>>

\* A track-end event reaches the listener of the guild's registered player.
Deliver(p) ==
    /\ Registered(players[p])
    /\ players[p].events # <<>>
    /\ players' = [players EXCEPT ![p] = TrackEnd(@)]
    /\ hpend' = IF players[p].queue # <<>>
                THEN hpend \cup {[p |-> p, track |-> players'[p].current]}
                ELSE hpend
    /\ mark' = [mark EXCEPT ![p] =
                  [@ EXCEPT !.op = IF @ = "skip" THEN "none" ELSE @,
                            !.head = IF mark[p].op = "skip" THEN 0 ELSE @,
                            !.deq = IF mark[p].n >= 1
                                       /\ Len(players'[p].queue) < Len(players[p].queue)
                                    THEN @ + 1 ELSE @]]
    /\ out' = NoOut
    /\ UNCHANGED <<tasks, sink, nextTrack, disc>>

\* play resumes after the search and the node refuses its player.play: the
\* exception ends the command.
PlaySearchFail(T) ==
    /\ T.pc = "p_search"
    /\ ~IsPlaying(players[T.p])
    /\ nextTrack <= MaxTracks
    /\ tasks' = Swap(T, Reply(T, "error"))
    /\ out' = OutOf(Reply(T, "error"))
    /\ players' = Collect([players EXCEPT ![T.p] = PlayEnqueueFail(@, nextTrack)],
                          tasks', hpend)
    /\ mark' = CollectMark([mark EXCEPT ![T.p] = NoMark], players')
    /\ nextTrack' = nextTrack + 1
    /\ UNCHANGED <<hpend, sink, disc>>

\* A track-end event reaches the listener and the node refuses its
\* player.play: the exception ends the listener.
DeliverFail(p) ==
    /\ Registered(players[p])
    /\ players[p].events # <<>>
    /\ players[p].queue # <<>>
    /\ players' = [players EXCEPT ![p] = TrackEndFail(@)]
    /\ mark' = [mark EXCEPT ![p] = NoMark]
    /\ out' = NoOut
    /\ UNCHANGED <<tasks, hpend, sink, nextTrack, disc>>

\* The listener resumes after player.play(): player.home.send(embed).
Notify(h) ==
    /\ h \in hpend
    /\ hpend' = hpend \ {h}
    /\ sink' = IF players[h.p].home # 0 THEN players[h.p].home ELSE sink
    /\ players' = Collect(players, tasks, hpend')
    /\ mark' = CollectMark(mark, players')
    /\ out' = NoOut
    /\ UNCHANGED <<tasks, nextTrack, disc>>

\* The node plays on.
Tick(p) ==
    /\ Registered(players[p])
    /\ players[p].ntrack # 0
    /\ ~players[p].paused
    /\ players[p].npos < TrackLen
    /\ players' = [players EXCEPT ![p].npos = @ + 1]
    /\ out' = NoOut
    /\ UNCHANGED <<tasks, hpend, sink, nextTrack, mark, disc>>

\* The node plays the track to its end.
Finish(p) ==
    /\ Registered(players[p])
    /\ players[p].ntrack # 0
    /\ ~players[p].paused
    /\ players' = [players EXCEPT
                     ![p] = [@ EXCEPT !.ntrack = 0, !.npos = 0,
                                      !.events = Append(@, [track |-> players[p].ntrack,
                                                            reason |-> "FINISHED"])]]
    /\ mark' = [mark EXCEPT ![p].n = 0, ![p].deq = 0]
    /\ out' = NoOut
    /\ UNCHANGED <<tasks, hpend, sink, nextTrack, disc>>

\* Playback on one session: members of the voice channel issue play, skip,
\* stop, pause and resume from one text channel; the join succeeds.
Next ==
    \/ \E cmd \in PlaybackCmds : Start(cmd, 1, 1, TRUE)
    \/ \E T \in BagToSet(tasks) : ConnectDone(T)
    \/ \E T \in BagToSet(tasks), found \in BOOLEAN : PlaySearch(T, found)
    \/ \E T \in BagToSet(tasks) : StopClear(T)
    \/ \E T \in BagToSet(tasks) : TaskDone(T)
    \/ \E p \in PlayerIds : Deliver(p)
    \/ \E h \in hpend : Notify(h)
    \/ \E p \in PlayerIds : Finish(p)

Spec == Init /\ [][Next]_vars

\* Sessions come and go: play and leave from two text channels by members of
\* the voice channel; the join may fail.
NextSession ==
    \/ \E cmd \in SessionCmds, ch \in Chans : Start(cmd, 1, ch, TRUE)
    \/ \E T \in BagToSet(tasks) : ConnectDone(T)
    \/ \E T \in BagToSet(tasks) : ConnectFail(T)
    \/ \E T \in BagToSet(tasks), found \in BOOLEAN : PlaySearch(T, found)
    \/ \E p \in PlayerIds : Deliver(p)
    \/ \E h \in hpend : Notify(h)
    \/ \E p \in PlayerIds : Finish(p)

SpecSession == Init /\ [][NextSession]_vars

\* Playback with the position the node reports: play, pause and stop on one
\* session, by members and non-members of the voice channel, while the node
\* plays on.
NextPosition ==
    \/ \E cmd \in {"play", "pause", "stop"}, v \in BOOLEAN : Start(cmd, 1, 1, v)
    \/ \E T \in BagToSet(tasks) : ConnectDone(T)
    \/ \E T \in BagToSet(tasks), found \in BOOLEAN : PlaySearch(T, found)
    \/ \E T \in BagToSet(tasks) : StopClear(T)
    \/ \E p \in PlayerIds : Deliver(p)
    \/ \E h \in hpend : Notify(h)
    \/ \E p \in PlayerIds : Tick(p)
    \/ \E p \in PlayerIds : Finish(p)

SpecPosition == Init /\ [][NextPosition]_vars

\* The queue of one session: play, playtop, skip and remove with positions
\* from below 1 to past the longest queue.
NextQueue ==
    \/ \E cmd \in QueueCmds : Start(cmd, 1, 1, TRUE)
    \/ \E position \in -1..MaxTracks : StartWith("remove", position, 1, 1, TRUE)
    \/ \E T \in BagToSet(tasks) : ConnectDone(T)
    \/ \E T \in BagToSet(tasks), found \in BOOLEAN : PlaySearch(T, found)
    \/ \E T \in BagToSet(tasks), found \in BOOLEAN : PlayTopSearch(T, found)
    \/ \E T \in BagToSet(tasks) : TaskDone(T)
    \/ \E p \in PlayerIds : Deliver(p)
    \/ \E h \in hpend : Notify(h)
    \/ \E p \in PlayerIds : Finish(p)

SpecQueue == Init /\ [][NextQueue]_vars

\* A session as a refused play leaves it: track 1 was played, track 2 queued
\* behind it and a third put before that with playtop; track 1 has ended and
\* the node refused the third to the listener.  Nothing plays, track 2 is
\* still queued, and the tracks the resolver hands out next are new ones (the
\* number of the lost track is free again).
InitRefused ==
    /\ players = [p \in PlayerIds |->
                    IF p = 1
                    THEN [NewPlayer EXCEPT !.st = "live", !.guild = 1, !.home = 1,
                                           !.queue = <<2>>, !.loaded = 1]
                    ELSE NewPlayer]
    /\ tasks = EmptyBag
    /\ hpend = {}
    /\ sink = 0
    /\ nextTrack = 3
    /\ out = NoOut
    /\ mark = [p \in PlayerIds |-> NoMark]
    /\ disc = [g \in Guilds |-> "no"]

\* A node that may refuse to play: play and playtop on one session, the
\* listener, and player.play raising in play and in the listener; from the
\* start and from a session that a refusal left behind.
NextFailure ==
    \/ \E cmd \in {"play", "playtop"} : Start(cmd, 1, 1, TRUE)
    \/ \E T \in BagToSet(tasks) : ConnectDone(T)
    \/ \E T \in BagToSet(tasks), found \in BOOLEAN : PlaySearch(T, found)
    \/ \E T \in BagToSet(tasks), found \in BOOLEAN : PlayTopSearch(T, found)
    \/ \E T \in BagToSet(tasks) : PlaySearchFail(T)
    \/ \E p \in PlayerIds : Deliver(p)
    \/ \E p \in PlayerIds : DeliverFail(p)
    \/ \E h \in hpend : Notify(h)
    \/ \E p \in PlayerIds : Finish(p)

SpecFailure == (Init \/ InitRefused) /\ [][NextFailure]_vars

\* Loop modes: play and loop with every word a user may type, on one session.
NextLoop ==
    \/ Start("play", 1, 1, TRUE)
    \/ \E word \in 1..Len(LoopArgs) : StartWith("loop", word, 1, 1, TRUE)
    \/ \E T \in BagToSet(tasks) : ConnectDone(T)
    \/ \E T \in BagToSet(tasks), found \in BOOLEAN : PlaySearch(T, found)
    \/ \E p \in PlayerIds : Deliver(p)
    \/ \E h \in hpend : Notify(h)
    \/ \E p \in PlayerIds : Finish(p)

SpecLoop == Init /\ [][NextLoop]_vars

\* A session that plays track 1 and has the n tracks after it queued, as n + 1
\* play commands leave it.
InitListed ==
    \E n \in 0..MaxRows :
        /\ players = [p \in PlayerIds |->
                        IF p = 1
                        THEN [NewPlayer EXCEPT !.st = "live", !.guild = 1, !.home = 1,
                                               !.current = 1, !.loaded = 1, !.ntrack = 1,
                                               !.queue = [k \in 1..n |-> k + 1]]
                        ELSE NewPlayer]
        /\ tasks = EmptyBag
        /\ hpend = {}
        /\ sink = 0
        /\ nextTrack = n + 2
        /\ out = NoOut
        /\ mark = [p \in PlayerIds |-> NoMark]
        /\ disc = [g \in Guilds |-> "no"]

\* The pages of the queue: queue with pages from below 1 to past the last, on
\* sessions with queues of every length, and remove of the first track.
NextPages ==
    \/ \E page \in -1..(MaxRows \div items_per_page + 2) : StartWith("queue", page, 1, 1, TRUE)
    \/ StartWith("remove", 1, 1, 1, TRUE)

SpecPages == InitListed /\ [][NextPages]_vars

\* Joining: play by members and non-members of the voice channel; the join
\* may fail.
NextJoin ==
    \/ \E v \in BOOLEAN : Start("play", 1, 1, v)
    \/ \E T \in BagToSet(tasks) : ConnectDone(T)
    \/ \E T \in BagToSet(tasks) : ConnectFail(T)
    \/ \E T \in BagToSet(tasks), found \in BOOLEAN : PlaySearch(T, found)
    \/ \E p \in PlayerIds : Deliver(p)
    \/ \E h \in hpend : Notify(h)
    \/ \E p \in PlayerIds : Finish(p)

SpecJoin == Init /\ [][NextJoin]_vars

\* Two guilds, each with its own voice context: commands and listener events
\* of both interleave.
NextIndependent ==
    \/ \E cmd \in {"play", "pause"}, g \in Guilds : Start(cmd, g, 1, TRUE)
    \/ \E T \in BagToSet(tasks) : ConnectDone(T)
    \/ \E T \in BagToSet(tasks), found \in BOOLEAN : PlaySearch(T, found)
    \/ \E p \in PlayerIds : Deliver(p)
    \/ \E h \in hpend : Notify(h)
    \/ \E p \in PlayerIds : Finish(p)

SpecIndependent == Init /\ [][NextIndependent]_vars

\* play alone fills the queue of one session, while skip, pause and resume
\* act on what plays.
NextFifo ==
    \/ \E cmd \in {"play", "skip", "pause", "resume"} : Start(cmd, 1, 1, TRUE)
    \/ \E T \in BagToSet(tasks) : ConnectDone(T)
    \/ \E T \in BagToSet(tasks), found \in BOOLEAN : PlaySearch(T, found)
    \/ \E T \in BagToSet(tasks) : TaskDone(T)
    \/ \E p \in PlayerIds : Deliver(p)
    \/ \E h \in hpend : Notify(h)
    \/ \E p \in PlayerIds : Finish(p)

SpecFifo == Init /\ [][NextFifo]_vars

\* The same session with the event loop running every track-end listener
\* that is due and every listener's send, and the node playing every track it
\* is not holding paused to its end.
SpecDrain ==
    /\ Init /\ [][NextFifo]_vars
    /\ \A p \in PlayerIds : WF_vars(Deliver(p))
    /\ \A p \in PlayerIds : WF_vars(Finish(p))
    /\ WF_vars(\E h \in hpend : Notify(h))

\* The progress bar: now for tracks of every duration at every position from
\* the start to the end.
NextBar ==
    \E duration \in 0..MaxDuration : \E position \in 0..duration :
        Status(position, duration)

SpecBar == Init /\ [][NextBar]_vars

\* The order of the queue: play, pause, shuffle with every outcome of the
\* random generator, and clear, on one session.
NextOrder ==
    \/ \E cmd \in {"play", "pause", "clear"} : Start(cmd, 1, 1, TRUE)
    \/ \E r \in 0..(Factorial(MaxTracks) - 1) : StartWith("shuffle", r, 1, 1, TRUE)
    \/ \E T \in BagToSet(tasks) : ConnectDone(T)
    \/ \E T \in BagToSet(tasks), found \in BOOLEAN : PlaySearch(T, found)
    \/ \E p \in PlayerIds : Deliver(p)
    \/ \E h \in hpend : Notify(h)
    \/ \E p \in PlayerIds : Finish(p)

SpecOrder == Init /\ [][NextOrder]_vars

\* The volume of one session: play, and volume with levels inside and outside
\* the range.
NextVolume ==
    \/ Start("play", 1, 1, TRUE)
    \/ \E level \in VolumeArgs : StartWith("volume", level, 1, 1, TRUE)
    \/ \E T \in BagToSet(tasks) : ConnectDone(T)
    \/ \E T \in BagToSet(tasks), found \in BOOLEAN : PlaySearch(T, found)
    \/ \E p \in PlayerIds : Deliver(p)
    \/ \E h \in hpend : Notify(h)
    \/ \E p \in PlayerIds : Finish(p)

SpecVolume == Init /\ [][NextVolume]_vars

\* The position in the track: play, now, and seek, rewind and forward with
\* seconds from below 0 to past the end of a track, while the node plays on.
NextSeek ==
    \/ \E cmd \in {"play", "now"} : Start(cmd, 1, 1, TRUE)
    \/ \E cmd \in {"seek", "rewind", "forward"}, seconds \in -1..(TrackLen + 1) :
          StartWith(cmd, seconds, 1, 1, TRUE)
    \/ \E T \in BagToSet(tasks) : ConnectDone(T)
    \/ \E T \in BagToSet(tasks), found \in BOOLEAN : PlaySearch(T, found)
    \/ \E p \in PlayerIds : Deliver(p)
    \/ \E h \in hpend : Notify(h)
    \/ \E p \in PlayerIds : Tick(p)
    \/ \E p \in PlayerIds : Finish(p)

SpecSeek == Init /\ [][NextSeek]_vars

TypeOK ==
    /\ nextTrack \in 1..(MaxTracks + 1)
    /\ \A p \in PlayerIds :
          /\ players[p].current \in 0..MaxTracks
          /\ Len(players[p].queue) <= MaxTracks
          /\ players[p].npos \in 0..TrackLen

----
\* Properties.

Range(q) == {q[i] : i \in 1..Len(q)}

\* The session states of the specification, read off the player.
Idle(P) == Registered(P) /\ P.current = 0
Playing(P) == Registered(P) /\ P.current # 0 /\ ~P.paused
Paused(P) == Registered(P) /\ P.current # 0 /\ P.paused

\* C1: a track end handled on a Playing or Paused session (loop off): with a
\* non-empty queue the head leaves the queue and becomes current, the node is
\* asked once to play it, the session is Playing and one "now playing" for it
\* is on its way to the home channel; with an empty queue the session is Idle
\* with no current track and the node is asked nothing.
C1_TrackEndedAdvances ==
    [][\A p \in PlayerIds :
          (/\ Deliver(p)
           /\ players[p].current # 0
           /\ Head(players[p].events).reason # "REPLACED")
          => IF players[p].queue # <<>>
             THEN /\ players'[p].queue = Tail(players[p].queue)
                  /\ players'[p].current = Head(players[p].queue)
                  /\ players'[p].ntrack = Head(players[p].queue)
                  /\ players'[p].events = Tail(players[p].events)
                  /\ Playing(players'[p])
                  /\ hpend' = hpend \cup {[p |-> p, track |-> Head(players[p].queue)]}
             ELSE /\ Idle(players'[p])
                  /\ players'[p].queue = <<>>
                  /\ players'[p].ntrack = players[p].ntrack
                  /\ hpend' = hpend]_vars

\* C2: play on an Idle session with an empty queue, the resolver returning a
\* candidate: the session is Playing, current is that candidate at position
\* 0, the queue is empty and the node was asked once to play it.
C2_PlayOnIdleStarts ==
    [][\A T \in BagToSet(tasks) :
          (/\ PlaySearch(T, TRUE)
           /\ Idle(players[T.p])
           /\ players[T.p].queue = <<>>)
          => /\ Playing(players'[T.p])
             /\ players'[T.p].current = nextTrack
             /\ players'[T.p].ntrack = nextTrack
             /\ players'[T.p].npos = 0
             /\ players'[T.p].queue = <<>>
             /\ players'[T.p].events = players[T.p].events]_vars

\* C3: play on a session that is not Idle appends the candidate at the end of
\* the queue, leaves current, the pause flag and the node alone, and reports
\* the size of the queue after the insertion as the position.
C3_PlayOnBusyAppends ==
    [][\A T \in BagToSet(tasks) :
          (/\ PlaySearch(T, TRUE)
           /\ ~Idle(players[T.p])
           /\ Registered(players[T.p]))
          => /\ players'[T.p].queue = Append(players[T.p].queue, nextTrack)
             /\ players'[T.p].current = players[T.p].current
             /\ players'[T.p].paused = players[T.p].paused
             /\ players'[T.p].ntrack = players[T.p].ntrack
             /\ players'[T.p].npos = players[T.p].npos
             /\ players'[T.p].events = players[T.p].events
             /\ out'.note = "queued"
             /\ out'.pos = Len(players[T.p].queue) + 1]_vars

\* A play has just queued a track behind another queued track.
C3_Witness ==
    \E p \in PlayerIds :
        /\ out.cmd = "play" /\ out.note = "queued" /\ out.pos = 2
        /\ Len(players[p].queue) = 2
        /\ players[p].current # 0

\* C4: after a skip on a Playing or Paused session, once the track end it
\* caused is handled, the session is Playing the track that headed the queue
\* when the skip was issued, and that track is no longer queued; or the
\* session is Idle if the queue was empty.
C4_SkipPlaysHead ==
    [][\A p \in PlayerIds :
          (Deliver(p) /\ mark[p].op = "skip")
          => IF mark[p].head # 0
             THEN /\ Playing(players'[p])
                  /\ players'[p].current = mark[p].head
                  /\ mark[p].head \notin Range(players'[p].queue)
             ELSE Idle(players'[p])]_vars

\* C5: two overlapping skip commands advance the queue once: the listener
\* dequeues at most one track for the two of them.
C5_TwoSkipsOneAdvance ==
    \A p \in PlayerIds : mark[p].n = 2 => mark[p].deq <= 1

\* C6: a skip racing a track end never advances the queue twice for the one
\* ending: the queue advances only when the listener handles the event of a
\* track that ended and was not replaced, the node then plays nothing that
\* the advance would cut short, and no second event is in flight for it.
C6_NoDoubleAdvance ==
    [][\A p \in PlayerIds :
          (/\ Registered(players[p])
           /\ players[p].queue # <<>>
           /\ players'[p].queue = Tail(players[p].queue)
           /\ players'[p].current = Head(players[p].queue))
          => /\ Deliver(p)
             /\ Head(players[p].events).reason # "REPLACED"
             /\ players[p].ntrack = 0
             /\ players'[p].events = <<>>]_vars

\* A skip was issued while the natural end of the current track was still on
\* its way to the listener, and a track is queued.
C6_Witness ==
    \E p \in PlayerIds :
        /\ mark[p].op = "skip"
        /\ players[p].events # <<>>
        /\ Head(players[p].events).reason = "FINISHED"
        /\ players[p].queue # <<>>

\* C7: once a stop has completed and the track end it caused is handled, the
\* session is Idle with an empty queue and no queued track was started.
C7_StopEndsIdle ==
    \A p \in PlayerIds :
        (/\ Registered(players[p])
         /\ mark[p].op = "stop"
         /\ ~\E T \in BagToSet(tasks) : T.cmd = "stop" /\ T.p = p
         /\ players[p].events = <<>>)
        => /\ Idle(players[p])
           /\ players[p].queue = <<>>
           /\ players[p].ntrack = 0

\* C8: Disconnected is terminal: nothing changes a disconnected player, and
\* a play that resumes on it is answered with SessionClosed.
C8_DisconnectedTerminal ==
    [][/\ \A p \in PlayerIds :
             (players[p].st = "closed" /\ players'[p].st = "closed")
             => players'[p] = players[p]
       /\ \A T \in BagToSet(tasks) :
             (PlaySearch(T, TRUE) /\ players[T.p].st = "closed")
             => out'.note = "closed"]_vars

\* C9: the command that arrives after the guild's session was disconnected
\* creates a new player with an empty queue, no current track and the pause
\* flag clear, and the join sets home to the channel of that command.
C9_FreshAfterDisconnect ==
    [][/\ \A cmd \in SessionCmds, g \in Guilds, ch \in Chans :
             (Start(cmd, g, ch, TRUE) /\ disc[g] = "left")
             => \E q \in PlayerIds :
                   /\ players[q].st = "unused"
                   /\ players'[q] = [NewPlayer EXCEPT !.st = "connecting", !.guild = g]
                   /\ tasks' = tasks (+) SetToBag({[NewTask(cmd, ch) EXCEPT
                                                      !.pc = "connecting", !.p = q]})
       /\ \A T \in BagToSet(tasks) :
             (ConnectDone(T) /\ Registered(players'[T.p]))
             => players'[T.p].home = T.chan]_vars

\* The session created after a disconnect is live, its home the second
\* channel, while a "Now Playing" of an earlier session went to the first.
C9_Witness ==
    \E p \in PlayerIds :
        /\ players[p].st = "live"
        /\ disc[players[p].guild] = "fresh"
        /\ players[p].home = 2
        /\ sink = 1

\* C10: a guild has at most one registered player, one join is awaited for
\* it, and no command is refused by connect() because another command's join
\* is under way.
C10_OneControllerPerGuild ==
    /\ \A p, q \in PlayerIds :
          (/\ Registered(players[p]) /\ Registered(players[q])
           /\ players[p].guild = players[q].guild) => p = q
    /\ \A T \in BagToSet(tasks) : T.pc = "connecting" => CopiesIn(T, tasks) = 1
    /\ \A T, U \in BagToSet(tasks) :
          (/\ Registered(players[T.p]) /\ Registered(players[U.p])
           /\ players[T.p].guild = players[U.p].guild) => T.p = U.p
    /\ out.note # "connected"

\* A second command runs on the player whose join the first still awaits.
C10_Witness ==
    \E T, U \in BagToSet(tasks) :
        /\ T.pc = "connecting" /\ U.pc = "p_search"
        /\ T.p = U.p
        /\ players[T.p].st = "connecting"

\* C11: a player.play that fails leaves the controller as it was: after the
\* listener's play failed the track it was to play is still queued and the
\* pause flag is as before; after the play of a play command failed the
\* player is as it was before the command.
C11_BackendFailureRollsBack ==
    [][/\ \A p \in PlayerIds :
             DeliverFail(p)
             => /\ players'[p].queue = players[p].queue
                /\ players'[p].paused = players[p].paused
       /\ \A T \in BagToSet(tasks) :
             (PlaySearchFail(T) /\ Registered(players[T.p]))
             => players'[T.p] = players[T.p]]_vars

C13_LoopCurrentReplays ==
    [][\A p \in PlayerIds :
          (/\ Deliver(p)
           /\ players[p].mode = "loop"
           /\ players[p].current # 0
           /\ Head(players[p].events).reason # "REPLACED")
          => /\ players'[p].current = players[p].current
             /\ players'[p].ntrack = players[p].current
             /\ players'[p].queue = players[p].queue]_vars

\* C14: under loop mode all a track end that finds the queue empty after a
\* track was played does not leave the session Idle: a track of the play
\* history is current and the node plays it.
C14_LoopAllReseeds ==
    [][\A p \in PlayerIds :
          (/\ Deliver(p)
           /\ players[p].mode = "loop_all"
           /\ players[p].queue = <<>>
           /\ players[p].loaded # 0
           /\ Head(players[p].events).reason # "REPLACED")
          => /\ players'[p].current # 0
             /\ players'[p].ntrack = players'[p].current]_vars

\* C15: in every reachable state the queue holds at most the configured
\* maximum of tracks.
C15_QueueWithinCapacity ==
    \A p \in PlayerIds : Len(players[p].queue) <= MAX_QUEUE_SIZE

\* A step in which a command is answered and the coroutines in flight stay
\* as they are is a command that ran from its arrival to its reply on the
\* guild's player; out' tells the command and its argument.

\* C16: remove with a position from 1 to the size of the queue takes out the
\* track at that position and reports it; the tracks before it keep their
\* positions, those after it move down by one, in their order; current is
\* untouched.
C16_RemoveTakesPosition ==
    [][\A g \in Guilds :
          (/\ out'.cmd = "remove"
           /\ tasks' = tasks
           /\ VoiceClient(g) # 0
           /\ out'.arg >= 1
           /\ out'.arg <= Len(players[VoiceClient(g)].queue))
          => LET p == VoiceClient(g)
                 position == out'.arg
                 q == players[p].queue
                 r == players'[p].queue
             IN /\ out'.note = "removed"
                /\ out'.track = q[position]
                /\ Len(r) = Len(q) - 1
                /\ \A i \in 1..Len(r) : r[i] = IF i < position THEN q[i] ELSE q[i + 1]
                /\ players'[p].current = players[p].current
                /\ players'[p].ntrack = players[p].ntrack]_vars

\* The first of two queued tracks was removed: the second is now at position 1.
C16_Witness ==
    \E p \in PlayerIds :
        /\ out.cmd = "remove" /\ out.note = "removed" /\ out.track = 2
        /\ players[p].queue = <<3>>

\* C17: remove with a position below 1 or above the size of the queue, or on
\* an empty queue, is refused and leaves the player as it was.
C17_RemoveRefusesBadPosition ==
    [][\A g \in Guilds :
          (/\ out'.cmd = "remove"
           /\ tasks' = tasks
           /\ VoiceClient(g) # 0
           /\ (out'.arg < 1 \/ out'.arg > Len(players[VoiceClient(g)].queue)))
          => /\ out'.note \in {"invalid", "empty"}
             /\ players'[VoiceClient(g)] = players[VoiceClient(g)]]_vars

\* Position 0 was refused on a queue of two tracks.
C17_Witness ==
    \E p \in PlayerIds :
        /\ out.cmd = "remove" /\ out.arg = 0 /\ out.note = "invalid"
        /\ Len(players[p].queue) = 2

\* C18: playtop on a session that is not Idle puts the candidate before the
\* first queued track and leaves current, the pause flag and the node alone;
\* on an Idle session it leaves the player as play would leave it.
C18_PlayTopFrontOrPlay ==
    [][\A T \in BagToSet(tasks) :
          (PlayTopSearch(T, TRUE) /\ Registered(players[T.p]))
          => IF ~Idle(players[T.p])
             THEN /\ players'[T.p].queue = <<nextTrack>> \o players[T.p].queue
                  /\ Head(players'[T.p].queue) = nextTrack
                  /\ players'[T.p].current = players[T.p].current
                  /\ players'[T.p].paused = players[T.p].paused
                  /\ players'[T.p].ntrack = players[T.p].ntrack
             ELSE players'[T.p] = PlayEnqueue(players[T.p], nextTrack)]_vars
\* C19: when the search of play or playtop finds nothing, the command answers
\* that there are no results and the session is left as it was: queue,
\* current track, pause flag, and no play request goes to the node.
C19_NoResultsLeavesSession ==
    [][\A T \in BagToSet(tasks) :
          ((PlaySearch(T, FALSE) \/ PlayTopSearch(T, FALSE)) /\ Registered(players[T.p]))
          => /\ out'.cmd = T.cmd
             /\ out'.note = "noresults"
             /\ players'[T.p] = players[T.p]]_vars

\* A search found nothing while a track was playing and another was queued.
C19_Witness ==
    \E p \in PlayerIds :
        /\ out.cmd \in {"play", "playtop"} /\ out.note = "noresults"
        /\ players[p].st = "live"
        /\ players[p].ntrack # 0 /\ players[p].current = players[p].ntrack
        /\ players[p].queue # <<>>
\* C20: skip on a session that plays nothing answers that nothing is playing
\* and leaves the player as it was: no request to the node, same queue, same
\* state.  The session is either there when skip arrives or is the one skip
\* itself joined, still playing nothing when the join is over.
C20_SkipOnIdleRefused ==
    [][/\ \A g \in Guilds, ch \in Chans :
            (/\ Start("skip", g, ch, TRUE)
             /\ VoiceClient(g) # 0
             /\ Idle(players[VoiceClient(g)]))
            => /\ out'.cmd = "skip"
               /\ out'.note = "nothing"
               /\ players'[VoiceClient(g)] = players[VoiceClient(g)]
       /\ \A T \in BagToSet(tasks) :
            (T.cmd = "skip" /\ Idle(players[T.p]) /\ ConnectDone(T))
            => /\ out'.note = "nothing"
               /\ players'[T.p] = [players[T.p] EXCEPT !.st = "live", !.home = T.chan]]_vars

\* skip was refused on a live session whose track has ended.
C20_Witness ==
    \E p \in PlayerIds :
        /\ out.cmd = "skip" /\ out.note = "nothing"
        /\ players[p].st = "live"
        /\ players[p].current = 0 /\ players[p].ntrack = 0
        /\ players[p].loaded # 0
\* The player a join leaves to the body of the command that joined.
Joined(P, T) == [P EXCEPT !.st = "live", !.home = T.chan]

\* C21: pause on a Playing session answers "paused" and leaves the session
\* Paused with the same current track and queue, the node holding the track
\* where it was; pause on a Paused session answers that it is already paused
\* and leaves the player and the node as they were.
C21_PauseOnPlayingOrPaused ==
    [][/\ \A g \in Guilds, ch \in Chans :
            LET p == VoiceClient(g) IN
            (Start("pause", g, ch, TRUE) /\ p # 0)
            => /\ Playing(players[p])
                  => /\ out'.note = "paused"
                     /\ players'[p] = [players[p] EXCEPT !.paused = TRUE]
                     /\ Paused(players'[p])
               /\ Paused(players[p])
                  => /\ out'.note = "already"
                     /\ players'[p] = players[p]
       /\ \A T \in BagToSet(tasks) :
            (T.cmd = "pause" /\ ConnectDone(T))
            => /\ Playing(players[T.p])
                  => /\ out'.note = "paused"
                     /\ players'[T.p] = [Joined(players[T.p], T) EXCEPT !.paused = TRUE]
               /\ Paused(players[T.p])
                  => /\ out'.note = "already"
                     /\ players'[T.p] = Joined(players[T.p], T)]_vars

\* pause was answered "paused" on a session with a track queued.
C21_Witness ==
    \E p \in PlayerIds :
        /\ out.cmd = "pause" /\ out.note = "paused"
        /\ Paused(players[p]) /\ players[p].ntrack = players[p].current
        /\ players[p].queue # <<>>
\* C22: resume on a Paused session answers "resumed" and leaves the session
\* Playing with the same current track and queue; resume on a Playing or an
\* Idle session answers that nothing is paused and leaves the player and the
\* node as they were.
C22_ResumeOnPausedOrNot ==
    [][/\ \A g \in Guilds, ch \in Chans :
            LET p == VoiceClient(g) IN
            (Start("resume", g, ch, TRUE) /\ p # 0)
            => /\ Paused(players[p])
                  => /\ out'.note = "resumed"
                     /\ players'[p] = [players[p] EXCEPT !.paused = FALSE]
                     /\ Playing(players'[p])
               /\ (Playing(players[p]) \/ Idle(players[p]))
                  => /\ out'.note = "notpaused"
                     /\ players'[p] = players[p]
       /\ \A T \in BagToSet(tasks) :
            (T.cmd = "resume" /\ ConnectDone(T))
            => /\ Paused(players[T.p])
                  => /\ out'.note = "resumed"
                     /\ players'[T.p] = [Joined(players[T.p], T) EXCEPT !.paused = FALSE]
               /\ (Playing(players[T.p]) \/ Idle(players[T.p]))
                  => /\ out'.note = "notpaused"
                     /\ players'[T.p] = Joined(players[T.p], T)]_vars
\* What seek <s> owes a player that its body found as P and left as Pn.
SeekOutcome(P, Pn, s) ==
    LET offset == s * Millis IN
    /\ Idle(P)
       => /\ out'.note = "nothing" /\ out'.seek = <<>> /\ Pn = P
    /\ (~Idle(P) /\ (offset < 0 \/ offset > Length(P.current)))
       => /\ out'.note = "invalid" /\ out'.seek = <<>> /\ Pn = P
    /\ (~Idle(P) /\ 0 <= offset /\ offset <= Length(P.current))
       => /\ out'.note = "seeked" /\ out'.seek = <<offset>>
          /\ Pn = [P EXCEPT !.npos = Pn.npos]
          /\ P.ntrack # 0 => Position(Pn) = offset

\* C23: seek on an Idle session answers that nothing is playing; with an
\* offset below 0 or past the length of the current track it answers that
\* the position is invalid; in both cases the node is asked nothing and the
\* position stays.  With an offset from 0 to the length, both included, the
\* node is asked to seek to that offset and the position the player reports
\* next is that offset.
C23_SeekValidatesOffset ==
    [][/\ \A g \in Guilds, ch \in Chans, s \in -1..(TrackLen + 1) :
            LET p == VoiceClient(g) IN
            (out'.cmd = "seek" /\ out'.arg = s /\ p # 0 /\ StartWith("seek", s, g, ch, TRUE))
            => SeekOutcome(players[p], players'[p], s)
       /\ \A T \in BagToSet(tasks) :
            (T.cmd = "seek" /\ ConnectDone(T))
            => SeekOutcome(Joined(players[T.p], T), players'[T.p], T.arg)]_vars

\* A seek to the very end of the track was accepted, and the player reports
\* that position.
C23_Witness ==
    \E p \in PlayerIds :
        /\ out.cmd = "seek" /\ out.note = "seeked"
        /\ out.seek = <<Length(players[p].current)>>
        /\ players[p].current # 0 /\ players[p].ntrack = players[p].current
        /\ Position(players[p]) = Length(players[p].current)
\* What rewind or forward owes a playing session that its body found as P:
\* a reply that is no error and a seek inside the current track.
RelativeOutcome(P) ==
    IsPlaying(P)
    => /\ out'.note \in {"rewound", "forwarded"}
       /\ Len(out'.seek) = 1
       /\ 0 <= out'.seek[1] /\ out'.seek[1] <= Length(P.current)

\* C24: rewind and forward by any number of seconds, negative ones included,
\* on a session with a current track at any position from 0 to its length
\* never answer with an error and ask the node to seek to a position from 0
\* to the length of the track.
C24_RelativeSeekClamped ==
    [][/\ \A g \in Guilds, ch \in Chans, cmd \in {"rewind", "forward"},
            N \in -1..(TrackLen + 1) :
            LET p == VoiceClient(g) IN
            (out'.cmd = cmd /\ out'.arg = N /\ p # 0 /\ StartWith(cmd, N, g, ch, TRUE))
            => RelativeOutcome(players[p])
       /\ \A T \in BagToSet(tasks) :
            (T.cmd \in {"rewind", "forward"} /\ ConnectDone(T))
            => RelativeOutcome(Joined(players[T.p], T))]_vars
\* What volume <level> owes a player that its body found as P and left as Pn.
VolumeOutcome(P, Pn, level) ==
    IF level < 0 \/ level > 100
    THEN out'.note = "badvolume" /\ Pn = P
    ELSE out'.note = "volume" /\ Pn = [P EXCEPT !.volume = level]

\* C25: the volume of every player is an integer from 0 to 100 in every
\* reachable state; volume with a level below 0 or above 100 answers that the
\* level is invalid and leaves the player as it was; with a level from 0 to
\* 100 it sets the volume to that level and nothing else.
C25_VolumeInRange ==
    /\ [](\A p \in PlayerIds : players[p].volume \in 0..100)
    /\ [][/\ \A g \in Guilds, ch \in Chans, level \in VolumeArgs :
              LET p == VoiceClient(g) IN
              (/\ out'.cmd = "volume" /\ out'.arg = level /\ p # 0
               /\ StartWith("volume", level, g, ch, TRUE))
              => VolumeOutcome(players[p], players'[p], level)
         /\ \A T \in BagToSet(tasks) :
              (T.cmd = "volume" /\ ConnectDone(T))
              => VolumeOutcome(Joined(players[T.p], T), players'[T.p], T.arg)]_vars

\* Level 150 was refused on a session whose volume had been set to 80.
C25_Witness ==
    \E p \in PlayerIds :
        /\ out.cmd = "volume" /\ out.arg = 150 /\ out.note = "badvolume"
        /\ players[p].st = "live" /\ players[p].volume = 80
\* The tracks of q, each as often as q has it.
Tracks(q) == [t \in Range(q) |-> Cardinality({i \in 1..Len(q) : q[i] = t})]

\* What shuffle owes a player that its body found as P and left as Pn.
ShuffleOutcome(P, Pn) ==
    /\ Tracks(Pn.queue) = Tracks(P.queue)
    /\ Len(Pn.queue) = Len(P.queue)
    /\ Pn = [P EXCEPT !.queue = Pn.queue]
    /\ out'.note = IF P.queue = <<>> THEN "empty" ELSE "shuffled"

\* C26: shuffle leaves the queue with the same tracks, each as often as
\* before, and so with the same size; only their order may differ.  The
\* current track, the pause flag, the loop mode and the rest of the player
\* are as before.
C26_ShufflePermutesQueue ==
    [][/\ \A g \in Guilds, ch \in Chans, r \in 0..(Factorial(MaxTracks) - 1) :
            LET p == VoiceClient(g) IN
            (/\ out'.cmd = "shuffle" /\ out'.arg = r /\ p # 0
             /\ StartWith("shuffle", r, g, ch, TRUE))
            => ShuffleOutcome(players[p], players'[p])
       /\ \A T \in BagToSet(tasks) :
            (T.cmd = "shuffle" /\ ConnectDone(T))
            => ShuffleOutcome(Joined(players[T.p], T), players'[T.p])]_vars

\* shuffle has turned the queue of a paused session round: the track asked
\* for last is now first.
C26_Witness ==
    \E p \in PlayerIds :
        /\ out.cmd = "shuffle" /\ out.note = "shuffled"
        /\ Paused(players[p]) /\ players[p].current = 1
        /\ players[p].queue = <<3, 2>>
\* What clear owes a player that its body found as P and left as Pn.
ClearOutcome(P, Pn) ==
    /\ out'.note = "cleared"
    /\ Pn = [P EXCEPT !.queue = <<>>]

\* C27: clear empties the queue whatever the state, an empty queue included,
\* and does not fail: it answers that the queue was cleared, the queue is
\* empty afterwards (so a second clear finds and leaves the same state), and
\* the current track and the rest of the player are as before.
C27_ClearIdempotent ==
    [][/\ \A g \in Guilds, ch \in Chans :
            LET p == VoiceClient(g) IN
            (out'.cmd = "clear" /\ p # 0 /\ Start("clear", g, ch, TRUE))
            => ClearOutcome(players[p], players'[p])
       /\ \A T \in BagToSet(tasks) :
            (T.cmd = "clear" /\ ConnectDone(T))
            => ClearOutcome(Joined(players[T.p], T), players'[T.p])]_vars
\* The number of pages of a queue of size tracks: ceil(size / 10).
PagesOf(size) == (size + 9) \div 10

\* What queue <page> owes a player that its body found as P and left as Pn.
QueueOutcome(P, Pn, page) ==
    LET size == Len(P.queue)
        first == (page - 1) * 10 + 1
        last == Min(page * 10, size)
    IN /\ Pn = P
       /\ page \in 1..PagesOf(size)
          => /\ out'.note = "listing"
             /\ out'.rows = [k \in 1..(last - first + 1) |->
                                <<first + k - 1, P.queue[first + k - 1]>>]
       /\ page \notin 1..PagesOf(size)
          => out'.note = "badpage"

\* C28: queue <page> on a queue of size tracks shows, for every page from 1
\* to ceil(size / 10), exactly the tracks at positions (page - 1) * 10 + 1 to
\* min(page * 10, size), in queue order, each with its position; for any
\* other page it answers that the page is invalid; it never changes the
\* player.
C28_QueuePages ==
    [][\A g \in Guilds, ch \in Chans, page \in -1..(MaxRows \div items_per_page + 2) :
          LET p == VoiceClient(g) IN
          (/\ out'.cmd = "queue" /\ out'.arg = page /\ p # 0
           /\ StartWith("queue", page, g, ch, TRUE))
          => QueueOutcome(players[p], players'[p], page)]_vars
\* The filled cells of a bar.
Filled(bar) == Cardinality({i \in 1..Len(bar) : bar[i] = "#"})

\* C29: the progress bar that now shows for a position from 0 to the duration
\* has exactly 20 cells, the filled ones first; their number is
\* floor(20 * position / duration), 0 when the duration is 0, and so lies
\* from 0 to 20.
C29_ProgressBarFilled ==
    out.note = "now"
    => /\ Len(out.bar) = 20
       /\ \A i \in 1..Len(out.bar) : out.bar[i] = IF i <= Filled(out.bar) THEN "#" ELSE "-"
       /\ Filled(out.bar) = IF out.len = 0 THEN 0 ELSE (20 * out.pos) \div out.len
       /\ Filled(out.bar) \in 0..20

\* now drew a bar with 19 of its cells filled for position 20 of 21.
C29_Witness ==
    /\ out.note = "now" /\ out.pos = 20 /\ out.len = 21
    /\ Filled(out.bar) = 19
\* C30: the home of a session is the channel of the command that created it,
\* from then on no step changes it while the session lasts, and every "now
\* playing" of the track-end listener goes to it.
C30_HomeFixedAtCreation ==
    [][/\ \A T \in BagToSet(tasks) :
            (ConnectDone(T) /\ Registered(players'[T.p]))
            => players'[T.p].home = T.chan
       /\ \A p \in PlayerIds :
            (players[p].home # 0 /\ players'[p].st # "unused")
            => players'[p].home = players[p].home
       /\ \A h \in hpend :
            Notify(h)
            => /\ players[h.p].home # 0
               /\ sink' = players[h.p].home]_vars
SessionView(P) == <<P.queue, P.current, P.paused, P.volume, P.mode, P.home>>

HeldTracks(P) == Range(P.queue) \cup ({P.current} \ {0})

StepOf(g) ==
    \/ \E cmd \in {"play", "pause"} : Start(cmd, g, 1, TRUE)
    \/ \E T \in BagToSet(tasks) :
          /\ T.p # 0
          /\ players[T.p].guild = g
          /\ \/ ConnectDone(T)
             \/ \E found \in BOOLEAN : PlaySearch(T, found)
    \/ \E p \in PlayerIds : players[p].guild = g /\ Deliver(p)

C32_SessionsIndependent ==
    /\ [](\A p, q \in PlayerIds :
            p # q /\ Registered(players[p]) /\ Registered(players[q])
            => /\ players[p].guild # players[q].guild
               /\ HeldTracks(players[p]) \cap HeldTracks(players[q]) = {})
    /\ [][\A q \in PlayerIds, g \in Guilds :
            Registered(players[q]) /\ players[q].guild # g /\ StepOf(g)
            => SessionView(players'[q]) = SessionView(players[q])]_vars

C32_Witness == \E p, q \in PlayerIds :
        /\ players[p].st = "live" /\ players[q].st = "live"
        /\ players[p].guild # players[q].guild
        /\ players[p].current # 0 /\ players[p].queue # <<>> /\ ~players[p].paused
        /\ players[q].current # 0 /\ players[q].paused
        /\ out.cmd = "pause"

\* C33: under loop off no accepted track is lost.  The tracks a session holds
\* (queue and current) are accepted ones, each held once; a track leaves the
\* session only as the current track (ended, skipped or replaced) or from the
\* queue by remove, clear or stop; a track enters it only when play or playtop
\* accepts it, and every accepted track enters it; a track that has left never
\* comes back.
C33_NoTrackLost ==
    /\ [](\A p \in PlayerIds :
            LET P == players[p] IN
            /\ HeldTracks(P) \subseteq 1..(nextTrack - 1)
            /\ Cardinality(Range(P.queue)) = Len(P.queue)
            /\ P.current \notin Range(P.queue))
    /\ [][/\ \A p \in PlayerIds :
               /\ \A t \in HeldTracks(players[p]) \ HeldTracks(players'[p]) :
                     \/ t = players[p].current
                     \/ out'.cmd \in {"remove", "clear", "stop"} /\ out'.note # "novoice"
               /\ \A t \in HeldTracks(players'[p]) \ HeldTracks(players[p]) :
                     /\ t = nextTrack
                     /\ out'.cmd \in {"play", "playtop"}
          /\ nextTrack' # nextTrack
             => /\ nextTrack' = nextTrack + 1
                /\ \E p \in PlayerIds : nextTrack \in HeldTracks(players'[p])]_vars

\* C34: under loop off, with play, skip, pause and resume only, the tracks
\* play accepted become current in the order of their acceptance, each at
\* most once: the queue holds the accepted tracks that were not yet current in
\* that order, behind the last track that became current, and the track that
\* becomes current is the one accepted next after it.
C34_PlayIsFifo ==
    /\ [](\A p \in PlayerIds :
            LET P == players[p] IN
            /\ \A i \in 1..Len(P.queue) : P.queue[i] = P.loaded + i
            /\ P.current \in {0, P.loaded})
    /\ [][\A p \in PlayerIds :
            (players'[p].current # players[p].current /\ players'[p].current # 0)
            => /\ players'[p].current = players[p].loaded + 1
               /\ players'[p].loaded = players'[p].current]_vars

C34_Witness == \E p \in PlayerIds :
        /\ Playing(players[p])
        /\ players[p].current = 2
        /\ players[p].queue = <<3>>
        /\ out.cmd = "play" /\ out.note = "queued"

\* C35: when play or playtop finds the player not playing and starts a track,
\* the track it hands to the node, and that becomes current, is the track it
\* has just inserted and reports.
C35_StartsWhatItReports ==
    [][\A T \in BagToSet(tasks) :
          (/\ T.pc \in {"p_search", "pt_search"}
           /\ ~IsPlaying(players[T.p])
           /\ PlaySearch(T, TRUE) \/ PlayTopSearch(T, TRUE))
          => /\ out'.note \in {"nowplaying", "top"}
             /\ players'[T.p].ntrack = nextTrack
             /\ players'[T.p].current = nextTrack]_vars

\* C36: a player whose pause flag is set has a current track, and pause on an
\* Idle session leaves the player, its pause flag and the node as they were.
C36_PausedHasCurrent ==
    /\ [](\A p \in PlayerIds : IsPaused(players[p]) => players[p].current # 0)
    /\ [][\A g \in Guilds, ch \in Chans :
            LET p == VoiceClient(g) IN
            (out'.cmd = "pause" /\ p # 0 /\ Start("pause", g, ch, TRUE) /\ Idle(players[p]))
            => players'[p] = players[p]]_vars

\* C37: under loop off, if from some point on no command is issued and every
\* track the node starts ends, then (the events being handled) every queued
\* track becomes current, and the session ends Idle with an empty queue for
\* good.
Command == \E cmd \in {"play", "skip", "pause", "resume"} : Start(cmd, 1, 1, TRUE)

TracksEnd == \A p \in PlayerIds : players[p].ntrack # 0 ~> players[p].ntrack = 0

====
